---------------------------- MODULE Spec2Model ----------------------------
(***************************************************************************)
(* The BEM time-marching loop of assigment1.py as a state machine.         *)
(*                                                                         *)
(* The script's floats are represented by integers in fixed units:         *)
(*   angles            micro-radian            (Pi = 3141593)              *)
(*   lengths           millimetre                                          *)
(*   time              millisecond                                         *)
(*   velocities        millimetre per second                               *)
(*   dimensionless     1/S  (S = 10000): cl, cd, F, sin, cos, exp, ...     *)
(*   loads per length  0.1 N/m                                             *)
(*   thrust, torque    0.1 N, 0.1 N m;  power  0.1 W                       *)
(* np.sin, np.cos, np.arctan, np.arccos, np.exp, np.sqrt and ** are        *)
(* computed by integer approximations whose error is stated at each.       *)
(* A run is followed up to the first division by zero: numpy would go on   *)
(* with inf/nan there, which these integers do not represent.              *)
(***************************************************************************)
EXTENDS Integers, Sequences, FiniteSets, TLC

---------------------------------------------------------------------------
(* Fixed-point arithmetic *)

S == 10 * 1000

Pi == 3141593

Abs(x) == IF x < 0 THEN -x ELSE x

Sgn(x) == IF x < 0 THEN -1 ELSE IF x > 0 THEN 1 ELSE 0

\* a / b rounded to the nearest integer, b # 0
RDiv(a, b) ==
  LET n == IF b < 0 THEN -a ELSE a
      d == Abs(b)
      q == Abs(n) \div d
      m == Abs(n) % d
  IN  Sgn(n) * (IF m >= d - m THEN q + 1 ELSE q)

\* a * b / c without forming a * b, c # 0: a is split by c
MulDiv(a, b, c) ==
  LET q == Abs(a) \div Abs(c)
      m == Abs(a) % Abs(c)
  IN  Sgn(a) * Sgn(c) * (q * b + RDiv(m * b, Abs(c)))

\* a * b / S
Mul(a, b) == MulDiv(a, b, S)

RECURSIVE SqrtSearch(_, _, _)
SqrtSearch(x, lo, hi) ==
  IF hi - lo <= 1 THEN lo
  ELSE LET mid == (lo + hi) \div 2
       IN  IF mid * mid <= x THEN SqrtSearch(x, mid, hi) ELSE SqrtSearch(x, lo, mid)

\* floor of the square root, 0 <= x < 2^31
ISqrt(x) == SqrtSearch(x, 0, 46341)

\* np.sqrt(a**2 + b**2) for |a|, |b| < 250 m/s, to 8 mm/s
Hypot(a, b) == 8 * ISqrt((Abs(a) \div 8) * (Abs(a) \div 8) + (Abs(b) \div 8) * (Abs(b) \div 8))

\* np.sin of x in [0, Pi]: Bhaskara's 16 p / (5 pi^2 - 4 p), p = x (pi - x), to 2e-3
SinHalf(x) ==
  LET m == x \div 1000
      pm == Pi \div 1000
      p == m * (pm - m)
  IN  RDiv(16 * p * 10, (5 * pm * pm - 4 * p) \div 1000)

\* np.sin(x), x in micro-radian
Sin(x) ==
  LET y == x % (2 * Pi)
  IN  IF y <= Pi THEN SinHalf(y) ELSE -SinHalf(y - Pi)

\* np.cos(x) = sin(x + pi/2)
Cos(x) == Sin(x + Pi \div 2)

\* arctan(q / S) for |q| <= S: q / (1 + 0.28 q^2), to 5e-3 rad
ArctanSmall(q) == 10 * RDiv(q * 10 * S, S + (28 * ((q * q) \div 100)) \div S)

\* np.arctan(num / den), den # 0, in micro-radian
Arctan(num, den) ==
  IF Abs(num) <= Abs(den)
  THEN ArctanSmall(RDiv(num * S, den))
  ELSE Sgn(num) * Sgn(den) * (Pi \div 2) - ArctanSmall(RDiv(den * S, num))

\* np.exp(-x / S) for x >= 0: 1 / (1 + x + x^2/2 + x^3/6 + x^4/24) on [0, 1],
\* squared above it, to 2e-3
RECURSIVE ExpNeg(_)
ExpNeg(x) ==
  IF x >= 10 * S THEN 0
  ELSE IF x > S THEN LET h == ExpNeg(x \div 2) IN Mul(h, h)
  ELSE LET x2 == Mul(x, x)
           x3 == Mul(x2, x)
           x4 == Mul(x3, x)
       IN  RDiv(S * S, S + x + x2 \div 2 + x3 \div 6 + x4 \div 24)

\* np.arccos(y / S) for 0 <= y <= S, in micro-radian:
\* sqrt(1 - y) (1.5707288 - 0.2121144 y + 0.0742610 y^2 - 0.0187293 y^3), to 1e-3
Arccos(y) ==
  LET sq == ISqrt((S - y) * S)
      p == 15707 + Mul(y, -2121 + Mul(y, 743 + Mul(y, -187)))
  IN  RDiv(sq * p, 100)

RECURSIVE RootSearch(_, _, _)
RootSearch(x, lo, hi) ==
  IF hi - lo <= 1 THEN lo
  ELSE LET mid == (lo + hi) \div 2
           p5 == Mul(Mul(Mul(Mul(mid, mid), mid), mid), mid)
       IN  IF p5 <= x THEN RootSearch(x, mid, hi) ELSE RootSearch(x, lo, mid)

\* (x / S) ** (e / 10) for the two exponents the script uses, 0 and 0.2
Pow(x, e) == IF e = 0 THEN S ELSE RootSearch(x, 0, 2 * S)

\* a * b / 10^6 without forming a * b: a is split by 1000
MulMicro(a, b) == ((a \div 1000) * b) \div 1000 + RDiv((a % 1000) * b, 1000 * 1000)

\* np.rad2deg(x): micro-radian to milli-degree
Rad2Deg(x) == RDiv(x * 180, Pi \div 1000)

\* np.deg2rad(x): milli-degree to micro-radian
Deg2Rad(x) == RDiv(x * (Pi \div 1000), 180)

Transpose(A) == <<<<A[1][1], A[2][1], A[3][1]>>,
                  <<A[1][2], A[2][2], A[3][2]>>,
                  <<A[1][3], A[2][3], A[3][3]>>>>

\* A @ v for a rotation matrix A (entries in 1/S) and a vector v
MatVec(A, v) == [p \in 1..3 |-> RDiv(A[p][1] * v[1] + A[p][2] * v[2] + A[p][3] * v[3], S)]

\* A @ C for rotation matrices
MatMul(A, C) ==
  [p \in 1..3 |-> [q \in 1..3 |->
     RDiv(A[p][1] * C[1][q] + A[p][2] * C[2][q] + A[p][3] * C[3][q], S)]]

---------------------------------------------------------------------------
(* Parameters of the script *)

B == 3
H == 119000
L_s == 7100
R == 89170
theta_cone == 0
theta_yaw == 0
theta_tilt == 0
rho == 1225
omega == 757019
V_0 == 9000
k_dwf == 6000

\* the number of time steps: 1200 in the script, bounded here
timerange == 9

\* under AnyOrderSpec and Blade0FirstSpec the loop is followed for this many steps
MaxOrderSteps == 2

Blades == 0 .. B - 1
Times == 0 .. timerange - 1

a1 == <<<<S, 0, 0>>,
        <<0, Cos(theta_yaw), Sin(theta_yaw)>>,
        <<0, -Sin(theta_yaw), Cos(theta_yaw)>>>>

a2 == <<<<Cos(theta_tilt), 0, -Sin(theta_tilt)>>,
        <<0, S, 0>>,
        <<Sin(theta_tilt), 0, Cos(theta_tilt)>>>>

a3 == <<<<S, 0, 0>>, <<0, S, 0>>, <<0, 0, S>>>>

a12 == MatMul(MatMul(a3, a2), a1)

a21 == Transpose(a12)

a34 == <<<<Cos(theta_cone), 0, -Sin(theta_cone)>>,
         <<0, S, 0>>,
         <<Sin(theta_cone), 0, Cos(theta_cone)>>>>

rt1 == <<H, 0, 0>>

rs1 == MatVec(a21, <<0, 0, -L_s>>)

---------------------------------------------------------------------------
(* Blade geometry tables (bladedat.txt): rows of r [mm], beta_deg [mdeg],  *)
(* c [mm], tc [0.1 %], innermost station first, blade tip last.            *)

\* three rows of the 10 MW reference blade: root cylinder, mid span, tip
ReferenceBlade ==
  << [r |-> 2800,  beta_deg |-> 14500, c |-> 5380, tc |-> 1000],
     [r |-> 50411, beta_deg |-> 2887,  c |-> 4698, tc |-> 253],
     [r |-> 89166, beta_deg |-> -3428, c |-> 600,  tc |-> 241] >>

\* the same blade with a station short of the tip
FourStationBlade ==
  << [r |-> 2800,  beta_deg |-> 14500, c |-> 5380, tc |-> 1000],
     [r |-> 50411, beta_deg |-> 2887,  c |-> 4698, tc |-> 253],
     [r |-> 88449, beta_deg |-> -3129, c |-> 1184, tc |-> 241],
     [r |-> 89166, beta_deg |-> -3428, c |-> 600,  tc |-> 241] >>

\* a table whose first two rows are swapped: the radii are not ascending
UnorderedBlade ==
  << [r |-> 50411, beta_deg |-> 2887,  c |-> 4698, tc |-> 253],
     [r |-> 2800,  beta_deg |-> 14500, c |-> 5380, tc |-> 1000],
     [r |-> 89166, beta_deg |-> -3428, c |-> 600,  tc |-> 241] >>

\* a table whose innermost station lies on the rotor axis
HubCentreBlade ==
  << [r |-> 0,     beta_deg |-> 14500, c |-> 5380, tc |-> 1000],
     [r |-> 50411, beta_deg |-> 2887,  c |-> 4698, tc |-> 253],
     [r |-> 89166, beta_deg |-> -3428, c |-> 600,  tc |-> 241] >>

---------------------------------------------------------------------------
(* Airfoil polar lookup (module interpolation, not part of the sources):    *)
(* a synthetic polar with the interface the script uses.  Coefficients in   *)
(* 1/S, aoa_deg in milli-degree, thickness in 0.1 %.                        *)

Clamp(x, lo, hi) == IF x < lo THEN lo ELSE IF x > hi THEN hi ELSE x

force_coeffs_10MW(aoa_deg, thick) ==
  LET aoa == Clamp(aoa_deg, -30000, 30000)
      \* weight of the cylinder polar, 0 at 24.1 % and 1 at 100 %
      w == Clamp(RDiv((thick - 241) * S, 1000 - 241), 0, S)
      f_air == Clamp(RDiv((20000 - Abs(aoa)) * S, 12000), 0, S)
      inv_air == RDiv(11 * (aoa + 4000), 10)
      fs_air == inv_air \div 2
      cl_air == Mul(f_air, inv_air) + Mul(S - f_air, fs_air)
      cd_air == 100 + Mul(S - f_air, 5000)
      Blend(x, cyl) == x + Mul(cyl - x, w)
  IN  [cl |-> Blend(cl_air, 0), cd |-> Blend(cd_air, 6000), cm |-> 0,
       f_stat |-> Blend(f_air, 0), cl_inv |-> Blend(inv_air, 0),
       cl_fs |-> Blend(fs_air, 0)]

---------------------------------------------------------------------------
(* State *)

VARIABLES
  \* settings and input data
  use_wind_shear, use_pitch, use_dwf, use_stall, delta_t, airfoils,
  \* scalars
  theta_pitch, a14, el,
  \* 1D and 2D arrays
  time_arr, T_arr, P_arr, CT_arr, CP_arr, T_all_arr, theta_blade_arr,
  \* 3D arrays (airfoil number, blade number, time)
  x1_arr, y1_arr, z1_arr, V0x_arr, V0y_arr, V0z_arr, V_rel_y_arr, V_rel_z_arr,
  Wy_arr, Wz_arr, Wy_qs_arr, Wz_qs_arr, Wy_int_arr, Wz_int_arr,
  pt_arr, pn_arr, fs_arr, cl_arr,
  \* position in the loops: time step n, blade i, the blades of this step and
  \* the elements of this blade in the order they were taken up, and the zero
  \* denominators met (empty unless pc = "fault")
  n, i, pc, bladeOrder, elemOrder, div0

settings == <<use_wind_shear, use_pitch, use_dwf, use_stall, delta_t, airfoils>>
arrays1 == <<time_arr, T_arr, P_arr, CT_arr, CP_arr, T_all_arr>>
geom3 == <<x1_arr, y1_arr, z1_arr, V0x_arr, V0y_arr, V0z_arr, V_rel_y_arr, V_rel_z_arr>>
wake3 == <<Wy_arr, Wz_arr, Wy_qs_arr, Wz_qs_arr, Wy_int_arr, Wz_int_arr>>
load3 == <<pt_arr, pn_arr, fs_arr, cl_arr>>
vars == <<settings, theta_pitch, a14, el, arrays1, theta_blade_arr, geom3, wake3, load3,
          n, i, pc, bladeOrder, elemOrder, div0>>

NumElems == Len(airfoils)
Elems == 0 .. NumElems - 1

r(k) == airfoils[k + 1].r
beta_deg(k) == airfoils[k + 1].beta_deg
c(k) == airfoils[k + 1].c
tc(k) == airfoils[k + 1].tc

wind_shear == IF use_wind_shear THEN 2 ELSE 0

\* the locals of the element loop body before any element has been processed
NoElement ==
  [k |-> -1, phi |-> 0, aoa_deg |-> 0, cl |-> 0, cd |-> 0, cm |-> 0, f_stat |-> 0,
   cl_inv |-> 0, cl_fs |-> 0, V_rel_abs |-> 0, a |-> 0, f_g |-> 0, V_f_W |-> 0,
   l |-> 0, d |-> 0, p_z |-> 0, p_y |-> 0, F |-> 0]

Tables == {ReferenceBlade, FourStationBlade, HubCentreBlade, UnorderedBlade}

TimeSteps == {150, 25 * 1000}

Zeros1 == [m \in Times |-> 0]
Zeros2 == [b \in Blades |-> Zeros1]
Zeros3(tab) == [k \in 0 .. Len(tab) - 1 |-> Zeros2]

\* blade j's azimuth at step 0: 0, 2 pi / 3, 4 pi / 3
InitialAzimuth(j) == IF j = 1 THEN RDiv(2 * Pi, 3) ELSE IF j = 2 THEN RDiv(4 * Pi, 3) ELSE 0

Init ==
  /\ use_wind_shear \in BOOLEAN
  /\ use_pitch \in BOOLEAN
  /\ use_dwf \in BOOLEAN
  /\ use_stall \in BOOLEAN
  /\ delta_t \in TimeSteps
  /\ airfoils \in Tables
  /\ theta_pitch = 0
  /\ a14 = a3
  /\ el = NoElement
  /\ time_arr = Zeros1
  /\ T_arr = Zeros1
  /\ P_arr = Zeros1
  /\ CT_arr = Zeros1
  /\ CP_arr = Zeros1
  /\ T_all_arr = Zeros2
  /\ theta_blade_arr = [b \in Blades |-> [m \in Times |-> IF m = 0 THEN InitialAzimuth(b) ELSE 0]]
  /\ x1_arr = Zeros3(airfoils)
  /\ y1_arr = Zeros3(airfoils)
  /\ z1_arr = Zeros3(airfoils)
  /\ V0x_arr = Zeros3(airfoils)
  /\ V0y_arr = Zeros3(airfoils)
  /\ V0z_arr = Zeros3(airfoils)
  /\ V_rel_y_arr = Zeros3(airfoils)
  /\ V_rel_z_arr = Zeros3(airfoils)
  /\ Wy_arr = Zeros3(airfoils)
  /\ Wz_arr = Zeros3(airfoils)
  /\ Wy_qs_arr = Zeros3(airfoils)
  /\ Wz_qs_arr = Zeros3(airfoils)
  /\ Wy_int_arr = Zeros3(airfoils)
  /\ Wz_int_arr = Zeros3(airfoils)
  /\ pt_arr = Zeros3(airfoils)
  /\ pn_arr = Zeros3(airfoils)
  /\ fs_arr = Zeros3(airfoils)
  /\ cl_arr = Zeros3(airfoils)
  /\ n = 0
  /\ i = 0
  /\ pc = "step"
  /\ bladeOrder = <<>>
  /\ elemOrder = <<>>
  /\ div0 = {}

---------------------------------------------------------------------------
(* The loop body *)

\* the schedule without its reset after the window: the pitch of the window
\* is carried over to the later steps
PitchScheduleNoReset(t, pitch) ==
  IF use_pitch /\ 100 * 1000 <= t /\ t <= 150 * 1000 THEN Deg2Rad(2000) ELSE pitch

\* the pitch the schedule leaves in theta_pitch at elapsed time t [ms]
PitchSchedule(t, pitch) ==
  IF use_pitch
  THEN IF 100 * 1000 <= t /\ t <= 150 * 1000 THEN Deg2Rad(2000)
       ELSE IF 150 * 1000 < t THEN 0
       ELSE pitch
  ELSE pitch

\* omega * delta_t in micro-radian
OmegaDt == MulDiv(omega, delta_t, 1000)

\* the azimuths chained from blade to blade: blade b reads blade b - 1's
\* azimuth of the same step
BladeAzimuthChained(theta, b, nn) ==
  IF b = 0 THEN theta[0][nn - 1] + OmegaDt
  ELSE theta[b - 1][nn] + MulDiv(Pi, 666, 1000)

\* the azimuth stored for blade b at step nn, read from the azimuths theta
BladeAzimuth(theta, b, nn) ==
  IF b = 0 THEN theta[0][nn - 1] + OmegaDt
  ELSE IF b = 1 THEN theta[0][nn] + OmegaDt + MulDiv(Pi, 666, 1000)
  ELSE IF b = 2 THEN theta[0][nn] + OmegaDt + MulDiv(Pi, 1333, 1000)
  ELSE theta[b][nn]

a23(theta) == <<<<Cos(theta), Sin(theta), 0>>,
                <<-Sin(theta), Cos(theta), 0>>,
                <<0, 0, S>>>>

\* a14 = a34 @ a23 @ a12
A14(theta) == MatMul(MatMul(a34, a23(theta)), a12)

\* 0.5 * rho * V_rel_abs**2 * c * coeff, in 0.1 N/m
DynamicLoad(V_rel_abs, chord, coeff) ==
  LET v2 == RDiv((V_rel_abs \div 10) * (V_rel_abs \div 10), 100)
      q == MulDiv(v2, rho, 20 * 1000)
  IN  MulDiv(MulDiv(q, chord, 1000), coeff, S)

\* the lift blended with the filtered separation in both terms
StallLiftFiltered(co, fs_new) ==
  IF use_stall THEN Mul(fs_new, co.cl_inv) + Mul(S - fs_new, co.cl_fs)
  ELSE co.cl

\* the lift coefficient stored in cl_arr, given the lookup's coefficients and the
\* filtered separation fs_arr[k, i, n]
StallLift(co, fs_new) ==
  IF use_stall THEN Mul(co.f_stat, co.cl_inv) + Mul(S - fs_new, co.cl_fs)
  ELSE co.cl

\* the loads without the special case of the outermost element
LoadsEverywhere(k, l, d, phi) ==
  [p_z |-> Mul(l, Cos(phi)) + Mul(d, Sin(phi)),
   p_y |-> Mul(l, Sin(phi)) - Mul(d, Cos(phi))]

\* the loads stored in pn_arr and pt_arr
Loads(k, l, d, phi) ==
  IF k = NumElems - 1
  THEN [p_z |-> 0, p_y |-> 0]
  ELSE [p_z |-> Mul(l, Cos(phi)) + Mul(d, Sin(phi)),
        p_y |-> Mul(l, Sin(phi)) - Mul(d, Cos(phi))]

\* the tip loss factor without the near-tip special case
PrandtlNoTipCase(k, phi) ==
  IF Sin(Abs(phi)) <= 100
  THEN S
  ELSE LET rs == Mul(r(k), Sin(Abs(phi)))
           f == IF rs = 0 THEN 10 * S ELSE MulDiv(B * (R - r(k)), S, 2 * rs)
       IN  RDiv((Arccos(ExpNeg(f)) \div 100) * 2 * S, Pi \div 100)

\* Prandtl's tip loss factor
Prandtl(k, phi) ==
  IF Sin(Abs(phi)) <= 100 \/ R - r(k) <= 5
  THEN S
  ELSE LET rs == Mul(r(k), Sin(Abs(phi)))
           f == IF rs = 0 THEN 10 * S ELSE MulDiv(B * (R - r(k)), S, 2 * rs)
       IN  RDiv((Arccos(ExpNeg(f)) \div 100) * 2 * S, Pi \div 100)

\* the induced velocity always taken from the filter
WakeValueFiltered(qs, filtered) == filtered

\* the induced velocity stored in Wy_arr / Wz_arr, given the quasi-steady value
\* qs of this step and the filtered value of the dynamic wake model
WakeValue(qs, filtered) == IF use_dwf THEN filtered ELSE qs

\* the denominator called name, if its value is zero
ZeroDen(name, val) == IF val = 0 THEN {name} ELSE {}

\* r1 = rt1 + rs1 + a41 @ [r[k], 0, 0]
Position(k, A) ==
  LET rb1 == MatVec(Transpose(A), <<r(k), 0, 0>>)
  IN  [p \in 1..3 |-> rt1[p] + rs1[p] + rb1[p]]

\* V0_array: the sheared wind at height x1
WindAt(x1) == <<0, 0, Mul(V_0, Pow(MulDiv(x1, S, H), wind_shear))>>

(***************************************************************************)
(* The element loop body for element k of blade b at step nn with the      *)
(* blade's matrix A, in the order of the script.  Each operator adds the   *)
(* values one block of the body computes to the record of those computed   *)
(* before it.                                                              *)
(***************************************************************************)
Geometry(k, b, nn, A) ==
  LET r1 == Position(k, A)
  IN  [k |-> k, b |-> b, nn |-> nn, x1 |-> r1[1], y1 |-> r1[2], z1 |-> r1[3],
       V0_4 |-> MatVec(A, WindAt(r1[1]))]

RelativeVelocity(s) ==
  s @@ [V_rel_y |-> s.V0_4[2] + Wy_arr[s.k][s.b][s.nn - 1]
                      - Mul(MulMicro(r(s.k), omega), Cos(theta_cone)),
        V_rel_z |-> s.V0_4[3] + Wz_arr[s.k][s.b][s.nn - 1]]

InflowAngle(s) ==
  s @@ [phi |-> IF s.V_rel_y = 0 THEN 0 ELSE Arctan(s.V_rel_z, -s.V_rel_y),
        V_rel_abs |-> Hypot(s.V_rel_y, s.V_rel_z)]

Polar(s) ==
  LET aoa_deg == Rad2Deg(s.phi) - (beta_deg(s.k) + Rad2Deg(theta_pitch))
  IN  s @@ [aoa_deg |-> aoa_deg, co |-> force_coeffs_10MW(aoa_deg, tc(s.k))]

\* tau_stall in 1e-4 s
StallTime(s) ==
  s @@ [tau_stall |-> IF s.V_rel_abs = 0 THEN 0 ELSE RDiv(4 * c(s.k) * S, s.V_rel_abs)]

Separation(s) ==
  s @@ [fs |-> IF use_stall /\ s.tau_stall # 0
               THEN s.co.f_stat + Mul(fs_arr[s.k][s.b][s.nn - 1] - s.co.f_stat,
                                      ExpNeg(MulDiv(s.dt * 10, S, s.tau_stall)))
               ELSE fs_arr[s.k][s.b][s.nn]]

Lift(s) == s @@ [cl_stored |-> StallLift(s.co, s.fs)]

Induction(s) == s @@ [a |-> RDiv((-Wz_arr[s.k][s.b][s.nn - 1]) * S, V_0)]

Glauert(s) == s @@ [f_g |-> IF s.a <= 3300 THEN S ELSE RDiv(5 * S - 3 * s.a, 4)]

WakeSpeed(s) ==
  s @@ [V_f_W |-> Hypot(s.V0_4[2], s.V0_4[3] + Mul(Wz_arr[s.k][s.b][s.nn - 1], s.f_g))]

LiftDrag(s) ==
  s @@ [l |-> DynamicLoad(s.V_rel_abs, c(s.k), s.cl_stored),
        d |-> DynamicLoad(s.V_rel_abs, c(s.k), s.co.cd)]

BladeLoads(s) == s @@ [p |-> Loads(s.k, s.l, s.d, s.phi)]

TipLoss(s) == s @@ [F |-> Prandtl(s.k, s.phi)]

\* den = 4 * pi * rho * r * F * V_f_W
QuasiSteadyDen(s) ==
  s @@ [den |-> MulDiv(MulDiv(Mul(r(s.k), s.F), s.V_f_W, 1000),
                       MulDiv(4 * Pi, rho, 1000 * 1000), 1000) \div 100]

QuasiSteady(s) ==
  s @@ [Wz_qs |-> RDiv((-B) * Mul(s.l, Cos(s.phi)) * 1000, IF s.den = 0 THEN 1 ELSE s.den),
        Wy_qs |-> RDiv((-B) * Mul(s.l, Sin(s.phi)) * 1000, IF s.den = 0 THEN 1 ELSE s.den)]

\* den_1 = 1 - 1.3 a; tau_1 in ms
WakeTime1(s) == s @@ [den_1 |-> S - RDiv(13 * s.a, 10)]

WakeTime2(s) ==
  s @@ [tau_1 |-> IF s.den_1 = 0 THEN 1
                  ELSE MulDiv(RDiv(11 * RDiv(R * 1000, V_0), 10), S, s.den_1),
        rR |-> MulDiv(r(s.k), S, R)]

WakeTime3(s) == s @@ [tau_2 |-> Mul(s.tau_1, 3900 - Mul(2600, Mul(s.rR, s.rR)))]

WakeLead(s) ==
  s @@ [Hy_dwf |-> s.Wy_qs + MulDiv(s.Wy_qs - Wy_qs_arr[s.k][s.b][s.nn - 1],
                                    Mul(k_dwf, s.tau_1), s.dt),
        Hz_dwf |-> s.Wz_qs + MulDiv(s.Wz_qs - Wz_qs_arr[s.k][s.b][s.nn - 1],
                                    Mul(k_dwf, s.tau_1), s.dt),
        e_1 |-> ExpNeg(MulDiv(s.dt, S, s.tau_1)),
        e_2 |-> ExpNeg(MulDiv(s.dt, S, IF s.tau_2 = 0 THEN 1 ELSE s.tau_2))]

WakeFilter1(s) ==
  s @@ [Wy_int |-> s.Hy_dwf + Mul(Wy_int_arr[s.k][s.b][s.nn - 1] - s.Hy_dwf, s.e_1),
        Wz_int |-> s.Hz_dwf + Mul(Wz_int_arr[s.k][s.b][s.nn - 1] - s.Hz_dwf, s.e_1)]

WakeFilter2(s) ==
  s @@ [Wy |-> WakeValue(s.Wy_qs,
                         s.Wy_int + Mul(Wy_arr[s.k][s.b][s.nn - 1] - s.Wy_int, s.e_2)),
        Wz |-> WakeValue(s.Wz_qs,
                         s.Wz_int + Mul(Wz_arr[s.k][s.b][s.nn - 1] - s.Wz_int, s.e_2))]

\* the denominators of the body's divisions that are zero
ZeroDenominators(s) ==
  s @@ [zero |-> ZeroDen("V_rel_y", s.V_rel_y)
                   \cup (IF use_stall THEN ZeroDen("V_rel_abs", s.V_rel_abs) ELSE {})
                   \cup (IF use_stall THEN ZeroDen("tau_stall", s.tau_stall) ELSE {})
                   \cup ZeroDen("r", r(s.k))
                   \cup ZeroDen("F", s.F)
                   \cup ZeroDen("V_f_W", s.V_f_W)
                   \cup (IF use_dwf THEN ZeroDen("1-1.3a", s.den_1) ELSE {})]

Element(k, b, nn, A) ==
  ZeroDenominators(WakeFilter2(WakeFilter1(WakeLead(WakeTime3(WakeTime2(WakeTime1(
    QuasiSteady(QuasiSteadyDen(TipLoss(BladeLoads(LiftDrag(WakeSpeed(Glauert(Induction(
      Lift(Separation(StallTime(Polar(InflowAngle(RelativeVelocity(
        Geometry(k, b, nn, A) @@ [dt |-> delta_t])))))))))))))))))))))

\* the scalars the body leaves behind
Locals(e) ==
  [k |-> e.k, phi |-> e.phi, aoa_deg |-> e.aoa_deg, cl |-> e.co.cl, cd |-> e.co.cd,
   cm |-> e.co.cm, f_stat |-> e.co.f_stat, cl_inv |-> e.co.cl_inv, cl_fs |-> e.co.cl_fs,
   V_rel_abs |-> e.V_rel_abs, a |-> e.a, f_g |-> e.f_g, V_f_W |-> e.V_f_W,
   l |-> e.l, d |-> e.d, p_z |-> e.p.p_z, p_y |-> e.p.p_y, F |-> e.F]

Range(seq) == {seq[p] : p \in DOMAIN seq}

\* the assignment with the time index off by one
PutEarlier(arr, k, b, nn, v) == [arr EXCEPT ![k][b][nn - 1] = v]

\* arr[k, b, nn] = v
Put(arr, k, b, nn, v) == [arr EXCEPT ![k][b][nn] = v]

RECURSIVE SumBlades(_, _, _, _)
\* np.sum(arr, axis=1)[k, nn] over blades 0 .. b
SumBlades(arr, k, nn, b) ==
  IF b < 0 THEN 0 ELSE arr[k][b][nn] + SumBlades(arr, k, nn, b - 1)

RECURSIVE TrapzFrom(_, _)
TrapzFrom(y, k) ==
  IF k >= NumElems - 1 THEN 0
  ELSE MulDiv(y[k] + y[k + 1], r(k + 1) - r(k), 2000) + TrapzFrom(y, k + 1)

\* np.trapz(y, r): y in 0.1 N/m, r in mm, the integral in 0.1 N
Trapz(y) == TrapzFrom(y, 0)

\* per-blade thrust np.trapz(pn_arr[:, b, nn], r)
BladeThrust(b, nn) == Trapz([k \in Elems |-> pn_arr[k][b][nn]])

\* T = B*np.trapz(pn_arr[:,0,n],r), the line the script has commented out
RotorThrustFirstBlade(nn) == B * BladeThrust(0, nn)

\* T = np.trapz(np.sum(pn_arr, axis=1)[:, nn], r)
RotorThrust(nn) == Trapz([k \in Elems |-> SumBlades(pn_arr, k, nn, B - 1)])

\* M_r = np.trapz(np.sum(pt_arr, axis=1)[:, nn] * r, r), in 0.1 N m
RotorTorque(nn) ==
  Trapz([k \in Elems |-> MulDiv(SumBlades(pt_arr, k, nn, B - 1), r(k), 1000)])

\* omega * M_r, in 0.1 W
RotorPower(nn) == Mul(RotorTorque(nn), omega \div 100)

\* the rows of T_all_arr the script assigns
ThrustRows == {0, 1, 2}

---------------------------------------------------------------------------
(* Actions *)

\* for n in range(1, timerange): time_arr[n] and the pitch schedule
StepBegin(bound) ==
  /\ pc = "step"
  /\ n + 1 < timerange
  /\ n + 1 <= bound
  /\ n' = n + 1
  /\ time_arr' = [time_arr EXCEPT ![n + 1] = (n + 1) * delta_t]
  /\ theta_pitch' = PitchSchedule((n + 1) * delta_t, theta_pitch)
  /\ pc' = "blades"
  /\ bladeOrder' = <<>>
  /\ elemOrder' = <<>>
  /\ UNCHANGED <<settings, a14, el, T_arr, P_arr, CT_arr, CP_arr, T_all_arr,
                 theta_blade_arr, geom3, wake3, load3, i, div0>>

\* for i in range(B): the blade's azimuth and transformation matrix
BladeHeader(b) ==
  /\ pc = "blades"
  /\ b \in Blades \ Range(bladeOrder)
  /\ theta_blade_arr' = [theta_blade_arr EXCEPT ![b][n] = BladeAzimuth(theta_blade_arr, b, n)]
  /\ a14' = A14(theta_blade_arr'[b][n])
  /\ i' = b
  /\ bladeOrder' = Append(bladeOrder, b)
  /\ elemOrder' = <<>>
  /\ pc' = "elems"
  /\ UNCHANGED <<settings, theta_pitch, el, arrays1, geom3, wake3, load3, n, div0>>

\* for k in range(len(r)): one pass of the element loop body
ElementStep(k) ==
  /\ pc = "elems"
  /\ k \in Elems \ Range(elemOrder)
  /\ \E e \in {Element(k, i, n, a14)} :
       /\ e.zero = {}
       /\ x1_arr' = Put(x1_arr, k, i, n, e.x1)
       /\ y1_arr' = Put(y1_arr, k, i, n, e.y1)
       /\ z1_arr' = Put(z1_arr, k, i, n, e.z1)
       /\ V0x_arr' = Put(V0x_arr, k, i, n, e.V0_4[1])
       /\ V0y_arr' = Put(V0y_arr, k, i, n, e.V0_4[2])
       /\ V0z_arr' = Put(V0z_arr, k, i, n, e.V0_4[3])
       /\ V_rel_y_arr' = Put(V_rel_y_arr, k, i, n, e.V_rel_y)
       /\ V_rel_z_arr' = Put(V_rel_z_arr, k, i, n, e.V_rel_z)
       /\ fs_arr' = IF use_stall THEN Put(fs_arr, k, i, n, e.fs) ELSE fs_arr
       /\ cl_arr' = Put(cl_arr, k, i, n, e.cl_stored)
       /\ pt_arr' = Put(pt_arr, k, i, n, e.p.p_y)
       /\ pn_arr' = Put(pn_arr, k, i, n, e.p.p_z)
       /\ Wz_qs_arr' = Put(Wz_qs_arr, k, i, n, e.Wz_qs)
       /\ Wy_qs_arr' = Put(Wy_qs_arr, k, i, n, e.Wy_qs)
       /\ Wy_int_arr' = IF use_dwf THEN Put(Wy_int_arr, k, i, n, e.Wy_int) ELSE Wy_int_arr
       /\ Wz_int_arr' = IF use_dwf THEN Put(Wz_int_arr, k, i, n, e.Wz_int) ELSE Wz_int_arr
       /\ Wy_arr' = Put(Wy_arr, k, i, n, e.Wy)
       /\ Wz_arr' = Put(Wz_arr, k, i, n, e.Wz)
       /\ el' = Locals(e)
  /\ elemOrder' = Append(elemOrder, k)
  /\ pc' = IF Len(elemOrder') < NumElems THEN "elems"
           ELSE IF Len(bladeOrder) = B THEN "integrate" ELSE "blades"
  /\ UNCHANGED <<settings, theta_pitch, a14, arrays1, theta_blade_arr, n, i, bladeOrder,
                 div0>>

\* the element loop body divides by zero: the run is not followed further
ElementFault(k) ==
  /\ pc = "elems"
  /\ k \in Elems \ Range(elemOrder)
  /\ Element(k, i, n, a14).zero # {}
  /\ div0' = Element(k, i, n, a14).zero
  /\ pc' = "fault"
  /\ UNCHANGED <<settings, theta_pitch, a14, el, arrays1, theta_blade_arr, geom3,
                 wake3, load3, n, i, bladeOrder, elemOrder>>

\* rotor power and thrust of step n
Integrate ==
  /\ pc = "integrate"
  /\ P_arr' = [P_arr EXCEPT ![n] = RotorPower(n)]
  /\ T_all_arr' = [b \in Blades |->
                     IF b \in ThrustRows THEN [T_all_arr[b] EXCEPT ![n] = BladeThrust(b, n)]
                     ELSE T_all_arr[b]]
  /\ T_arr' = [T_arr EXCEPT ![n] = RotorThrust(n)]
  /\ pc' = "step"
  /\ UNCHANGED <<settings, theta_pitch, a14, el, time_arr, CT_arr, CP_arr,
                 theta_blade_arr, geom3, wake3, load3, n, i, bladeOrder, elemOrder, div0>>

\* the first of the blades / elements not yet processed, as range() yields them
First(x, rest) == \A y \in rest : x <= y

Next ==
  \/ StepBegin(timerange)
  \/ \E b \in Blades : First(b, Blades \ Range(bladeOrder)) /\ BladeHeader(b)
  \/ \E k \in Elems : First(k, Elems \ Range(elemOrder)) /\ ElementStep(k)
  \/ \E k \in Elems : First(k, Elems \ Range(elemOrder)) /\ ElementFault(k)
  \/ Integrate

Spec == Init /\ [][Next]_vars

---------------------------------------------------------------------------
(* The same loop with the blades of a step, and the elements of a blade,   *)
(* taken up in any order, for MaxOrderSteps steps.                         *)

OrderInit ==
  /\ Init
  /\ use_pitch = FALSE
  /\ use_dwf = TRUE
  /\ use_stall = TRUE
  /\ delta_t = 150
  /\ airfoils \in {ReferenceBlade, HubCentreBlade}

AnyOrderNext ==
  \/ StepBegin(MaxOrderSteps)
  \/ \E b \in Blades : BladeHeader(b)
  \/ \E k \in Elems : ElementStep(k)
  \/ \E k \in Elems : ElementFault(k)
  \/ Integrate

AnyOrderSpec == OrderInit /\ [][AnyOrderNext]_vars

---------------------------------------------------------------------------
(* Properties *)

\* blade b's azimuth of step m has been stored
AzimuthStored(b, m) == m < n \/ (m = n /\ b \in Range(bladeOrder))

\* step m has been completed, integration included
StepDone(m) == 1 <= m /\ (m < n \/ (m = n /\ pc = "step"))

\* el holds the locals of element el.k of blade i at step n
JustProcessed == elemOrder # <<>>

\* C1: at every step, blade j's azimuth minus blade 0's azimuth is j * 2 pi / 3
\* (j = 1, 2), the offset of step 0, to within 10 micro-radian
AzimuthSpacing ==
  \A j \in {1, 2} : \A m \in Times :
    (AzimuthStored(j, m) /\ AzimuthStored(0, m))
      => Abs(theta_blade_arr[j][m] - theta_blade_arr[0][m] - InitialAzimuth(j)) <= 10

RECURSIVE SequentialAzimuths(_, _)
\* the azimuths of step n as the order i = 0 .. B-1 stores them
SequentialAzimuths(theta, b) ==
  IF b = B THEN theta
  ELSE SequentialAzimuths([theta EXCEPT ![b][n] = BladeAzimuth(theta, b, n)], b + 1)

\* the step-n entries of every array are those the sequential order stores
SameAsSequential ==
  LET theta == SequentialAzimuths(theta_blade_arr, 0)
  IN  /\ \A b \in Blades : theta_blade_arr[b][n] = theta[b][n]
      /\ \A b \in Blades : \A k \in Elems :
           \E e \in {Element(k, b, n, A14(theta[b][n]))} :
             /\ x1_arr[k][b][n] = e.x1
             /\ y1_arr[k][b][n] = e.y1
             /\ z1_arr[k][b][n] = e.z1
             /\ V0x_arr[k][b][n] = e.V0_4[1]
             /\ V0y_arr[k][b][n] = e.V0_4[2]
             /\ V0z_arr[k][b][n] = e.V0_4[3]
             /\ V_rel_y_arr[k][b][n] = e.V_rel_y
             /\ V_rel_z_arr[k][b][n] = e.V_rel_z
             /\ fs_arr[k][b][n] = e.fs
             /\ cl_arr[k][b][n] = e.cl_stored
             /\ pt_arr[k][b][n] = e.p.p_y
             /\ pn_arr[k][b][n] = e.p.p_z
             /\ Wy_qs_arr[k][b][n] = e.Wy_qs
             /\ Wz_qs_arr[k][b][n] = e.Wz_qs
             /\ Wy_int_arr[k][b][n] = e.Wy_int
             /\ Wz_int_arr[k][b][n] = e.Wz_int
             /\ Wy_arr[k][b][n] = e.Wy
             /\ Wz_arr[k][b][n] = e.Wz

\* C2 as stated: whatever the order in which the blades of step n and the
\* elements of each blade were processed, the step-n entries of every array
\* are those of the sequential order
OrderIndependent == pc = "integrate" => SameAsSequential

\* C2, amended: the elements of a blade in any order, and the blades in any
\* order that starts with blade 0, leave the step-n entries of every array as
\* the sequential order does
Blade0FirstIndependent ==
  (pc = "integrate" /\ bladeOrder[1] = 0) => SameAsSequential

\* a step after the first completed with blade 0 first and neither the other
\* blades nor the last blade's elements in sequential order
OrderWitness ==
  /\ pc = "integrate"
  /\ n = 2
  /\ bladeOrder = <<0, 2, 1>>
  /\ elemOrder = <<2, 0, 1>>
  /\ Wz_arr[1][1][1] # 0

All1 == <<time_arr, T_arr, P_arr, CT_arr, CP_arr>>
All2 == <<T_all_arr, theta_blade_arr>>
All3 == <<x1_arr, y1_arr, z1_arr, V0x_arr, V0y_arr, V0z_arr, V_rel_y_arr, V_rel_z_arr,
          Wy_arr, Wz_arr, Wy_qs_arr, Wz_qs_arr, Wy_int_arr, Wz_int_arr,
          pt_arr, pn_arr, fs_arr, cl_arr>>

\* every index-0 entry holds its initial value
Index0Initial ==
  /\ \A p \in DOMAIN All1 : All1[p][0] = 0
  /\ \A b \in Blades : T_all_arr[b][0] = 0 /\ theta_blade_arr[b][0] = InitialAzimuth(b)
  /\ \A p \in DOMAIN All3 : \A k \in Elems : \A b \in Blades : All3[p][k][b][0] = 0

\* every array has timerange entries along its time axis
LengthsFixed ==
  /\ \A p \in DOMAIN All1 : DOMAIN All1[p] = 0 .. timerange - 1
  /\ \A p \in DOMAIN All2 : \A b \in Blades : DOMAIN All2[p][b] = 0 .. timerange - 1
  /\ \A p \in DOMAIN All3 : \A k \in Elems : \A b \in Blades :
       DOMAIN All3[p][k][b] = 0 .. timerange - 1

\* a step changes no entry whose time index is not the n it leaves
OnlyIndexNChanges ==
  \A m \in Times \ {n'} :
    /\ \A p \in DOMAIN All1 : All1'[p][m] = All1[p][m]
    /\ \A p \in DOMAIN All2 : \A b \in Blades : All2'[p][b][m] = All2[p][b][m]
    /\ \A p \in DOMAIN All3 : \A k \in Elems : \A b \in Blades :
         All3'[p][k][b][m] = All3[p][k][b][m]

\* C3: the step for index n writes only entries with time index n: the index-0
\* entries keep their initial values, no entry of another index (so none of a
\* completed step) changes, and every array keeps its length timerange
WritesOnlyIndexN ==
  [](Index0Initial /\ LengthsFixed) /\ [][OnlyIndexNChanges]_vars

\* the third step is under way after two steps that stored non-zero results
FrameWitness ==
  /\ n = 3
  /\ pc = "integrate"
  /\ T_arr[1] # 0 /\ T_arr[2] # 0
  /\ Wz_arr[1][0][1] # 0 /\ Wz_arr[1][0][2] # 0 /\ Wz_arr[1][0][3] # 0

\* C4: the loads stored for the outermost element are zero for every blade and
\* step, whatever its lift and drag
TipLoadZero ==
  /\ \A b \in Blades : \A m \in Times :
       pn_arr[NumElems - 1][b][m] = 0 /\ pt_arr[NumElems - 1][b][m] = 0
  /\ (JustProcessed /\ el.k = NumElems - 1) => (el.p_z = 0 /\ el.p_y = 0)

\* the outermost element has been processed with non-zero lift and drag
TipLoadWitness ==
  JustProcessed /\ el.k = NumElems - 1 /\ el.l # 0 /\ el.d # 0 /\ n >= 2

\* the tip loss factor of the formula, for the element and inflow angle of el
PrandtlFormula ==
  LET f == MulDiv(B * (R - r(el.k)), S, 2 * Mul(r(el.k), Sin(Abs(el.phi))))
  IN  RDiv((Arccos(ExpNeg(f)) \div 100) * 2 * S, Pi \div 100)

\* C5: the Prandtl factor F lies in (0, 1]; it is 1 whenever sin|phi| <= 0.01
\* or R - r[k] <= 0.005, and (2/pi) arccos(exp(-(B/2)(R-r)/(r sin|phi|)))
\* otherwise
PrandtlInRange ==
  JustProcessed =>
    /\ 0 < el.F /\ el.F <= S
    /\ IF Sin(Abs(el.phi)) <= 100 \/ R - r(el.k) <= 5
       THEN el.F = S
       ELSE el.F = PrandtlFormula

\* an element away from the tip whose factor comes from the formula and is
\* below 1
PrandtlWitness ==
  /\ JustProcessed
  /\ el.k = 1
  /\ el.F < S
  /\ Sin(Abs(el.phi)) > 100

\* C6: with use_dwf False the induced velocity of every step, blade and
\* element equals the quasi-steady value of the same step
NoFilterMeansQuasiSteady ==
  ~use_dwf =>
    \A k \in Elems : \A b \in Blades : \A m \in Times :
      Wy_arr[k][b][m] = Wy_qs_arr[k][b][m] /\ Wz_arr[k][b][m] = Wz_qs_arr[k][b][m]

\* the filter is off and the quasi-steady value changes from step to step
NoFilterWitness ==
  /\ ~use_dwf
  /\ StepDone(2)
  /\ Wz_arr[1][0][1] # 0
  /\ Wz_qs_arr[1][0][2] # Wz_qs_arr[1][0][1]
  /\ Wy_arr[1][0][2] # 0

\* fs lies between lo and hi, whichever is larger
Between(fs, lo, hi) ==
  (lo <= fs /\ fs <= hi) \/ (hi <= fs /\ fs <= lo)

\* C7: with dynamic stall off cl_arr[k,i,n] is the lookup's cl and fs_arr is
\* never written; with it on fs_arr[k,i,n] decays from fs_arr[k,i,n-1] towards
\* f_stat with time constant 4 c / |V_rel| and
\* cl_arr[k,i,n] = f_stat * cl_inv + (1 - fs_arr[k,i,n]) * cl_fs
StallFlagSelectsLift ==
  /\ ~use_stall => \A k \in Elems : \A b \in Blades : \A m \in Times : fs_arr[k][b][m] = 0
  /\ JustProcessed =>
       LET fs == fs_arr[el.k][i][n]
           fs_prev == fs_arr[el.k][i][n - 1]
           tau == RDiv(4 * c(el.k) * S, el.V_rel_abs)
       IN  IF use_stall
           THEN /\ cl_arr[el.k][i][n] = Mul(el.f_stat, el.cl_inv) + Mul(S - fs, el.cl_fs)
                /\ fs = el.f_stat
                        + Mul(fs_prev - el.f_stat, ExpNeg(MulDiv(delta_t * 10, S, tau)))
                /\ Between(fs, fs_prev, el.f_stat)
           ELSE cl_arr[el.k][i][n] = el.cl

\* dynamic stall is on and the separation of an element is on its way from a
\* non-zero earlier value to the static one
StallWitness ==
  /\ use_stall
  /\ JustProcessed
  /\ n >= 2
  /\ fs_arr[el.k][i][n - 1] # 0
  /\ fs_arr[el.k][i][n] # el.f_stat
  /\ fs_arr[el.k][i][n] # fs_arr[el.k][i][n - 1]
  /\ el.cl_fs # 0

\* C8: the pitch of step n is a function of t = n * delta_t alone: 2 degrees
\* when pitch control is on and 100 <= t <= 150, zero at every other step and
\* whenever pitch control is off
PitchIsFunctionOfTime ==
  theta_pitch = IF use_pitch /\ 100 * 1000 <= n * delta_t /\ n * delta_t <= 150 * 1000
                THEN Deg2Rad(2000)
                ELSE 0

\* pitch control is on, the window has been passed through and left
PitchWitness ==
  /\ use_pitch
  /\ n * delta_t > 150 * 1000
  /\ time_arr[n - 1] = 150 * 1000
  /\ theta_pitch = 0
  /\ pc = "integrate"

\* blade b's torque np.trapz(pt_arr[:, b, m] * r, r), in 0.1 N m
BladeTorque(b, m) == Trapz([k \in Elems |-> MulDiv(pt_arr[k][b][m], r(k), 1000)])

RECURSIVE SumOver(_, _)
\* the sum of f over blades 0 .. b
SumOver(f, b) == IF b < 0 THEN 0 ELSE f[b] + SumOver(f, b - 1)

\* C9: at every completed step the thrust T_arr[n] is the sum over the B
\* blades of T_all_arr[i,n], each row of T_all_arr holds its blade's
\* trapezoidal integral of pn_arr[:,i,n] over r, and P_arr[n] is omega times
\* the sum over the blades of the integral of pt_arr[:,i,n] * r.  The sums
\* are sums of rounded terms: the thrust agrees to one unit (0.1 N) per blade
\* and station, the power to one unit (0.1 W) per blade and metre of radius
AggregatesConsistent ==
  \A m \in Times : StepDone(m) =>
    LET rowThrust == [b \in Blades |-> T_all_arr[b][m]]
        torque == [b \in Blades |-> BladeTorque(b, m)]
    IN  /\ \A b \in Blades : T_all_arr[b][m] = BladeThrust(b, m)
        /\ Abs(T_arr[m] - SumOver(rowThrust, B - 1)) <= B * NumElems
        /\ Abs(P_arr[m] - Mul(SumOver(torque, B - 1), omega \div 100)) <= B * (R \div 1000)

\* two steps completed in sheared wind, where the blades carry different loads
AggregatesWitness ==
  /\ StepDone(2)
  /\ use_wind_shear
  /\ T_all_arr[0][2] # T_all_arr[1][2]
  /\ T_arr[2] > 0 /\ P_arr[2] > 0

\* C10: no step evaluates a division of the element update (inflow-angle
\* arctangent, stall time constant, tip-correction exponent, quasi-steady
\* induced velocity) whose denominator is a relative velocity, a radius or
\* the Prandtl factor with that denominator zero
NoZeroDenominator == div0 \cap {"V_rel_y", "V_rel_abs", "r", "F"} = {}

\* the radial stations are strictly increasing
StrictlyIncreasing == \A k \in 0 .. NumElems - 2 : r(k) < r(k + 1)

\* C11: the time loop is entered only with a geometry table whose radial
\* stations are strictly increasing: a table with equal or decreasing
\* consecutive radii never gets a step computed
GeometryValidated == n >= 1 => StrictlyIncreasing

=============================================================================
